---- MODULE Spec2Model ----
(***************************************************************************)
(* Model of the chat CLI of src/main.go: the token counter, the session    *)
(* tracker (SessionStats) and the conversation loop of main.               *)
(*                                                                         *)
(* A text is a string over a small alphabet, held run-length encoded: a   *)
(* sequence of runs [sym, n] (n >= 1 copies of sym) in which adjacent runs *)
(* have different symbols, so that equal strings are equal values.         *)
(*                                                                         *)
(* The tokenizer (tiktoken, cl100k_base) is a byte-pair encoding: adjacent *)
(* symbols can merge into one token, so the count of a concatenation can   *)
(* be smaller than the sum of the counts of its parts.  The model keeps    *)
(* that with one merge rule: the pair "a","b" is one token, every other    *)
(* symbol is a token of its own.                                           *)
(***************************************************************************)
EXTENDS Integers, Sequences, FiniteSets, TLC

(* ------------------------------ bounds -------------------------------- *)

\* number of input lines other than the quit line read in one session
MaxLines == 2
\* number of events one completion stream delivers at most
MaxEvents == 2
\* number of update calls applied in the tracker specification
MaxCalls == 2

(* ------------------------- program constants -------------------------- *)

MaxTokens == 4096

(* -------------------------------- texts ------------------------------- *)

\* the string of n copies of sym
Rep(sym, n) == IF n = 0 THEN <<>> ELSE <<[sym |-> sym, n |-> n]>>

\* strings.Builder.WriteString: s followed by t
WriteString(s, t) ==
    IF s = <<>> THEN t
    ELSE IF t = <<>> THEN s
    ELSE IF s[Len(s)].sym = t[1].sym
         THEN SubSeq(s, 1, Len(s) - 1)
              \o <<[sym |-> t[1].sym, n |-> s[Len(s)].n + t[1].n]>>
              \o Tail(t)
         ELSE s \o t

RECURSIVE Chars(_)
\* the number of symbols of the text
Chars(text) == IF text = <<>> THEN 0 ELSE text[1].n + Chars(Tail(text))

Quit == Rep("q", 1)

SystemPrompt == Rep("You are a helpful assistant.", 1)

(* ------------------------------- inputs ------------------------------- *)

\* the lines the user can type: the quit line, the empty line (no token), a
\* line of ten tokens ("a" ten times, then "b"), a line one token short of
\* the context window and a line one token over it
Lines ==
    {Quit, <<>>, WriteString(Rep("a", 10), Rep("b", 1)),
     Rep("a", MaxTokens - 1), Rep("a", MaxTokens + 1)}

\* a stream event is the list of its choices, each choice being its delta
\* content: an event without choice, and events of one choice
Events == {<<>>, <<Rep("a", 1)>>, <<Rep("b", 1)>>}

\* the token counts update is called with in the tracker specification
Counts == {0, 1, 2, 10, MaxTokens - 1, MaxTokens, MaxTokens + 1}

(* --------------------------- token counter ---------------------------- *)

\* the number of adjacent pairs of the text that merge into one token: a run
\* of "a" followed by a run of "b" holds one such pair
Merges(text) ==
    Cardinality({i \in 1..(Len(text) - 1) : text[i].sym = "a" /\ text[i + 1].sym = "b"})

\* len(tkm.Encode(text, nil, nil))
Encode(text) == Chars(text) - Merges(text)

\* countTokens: avail is whether tiktoken.GetEncoding finds the encoding
countTokens(text, avail) ==
    IF ~avail THEN [n |-> 0, err |-> TRUE]
    ELSE [n |-> Encode(text), err |-> FALSE]

(* --------------------------- session tracker -------------------------- *)

\* stats := &SessionStats{remainingTokens: MaxTokens}
NewStats == [totalTokens |-> 0, messageCount |-> 0, remainingTokens |-> MaxTokens]

\* update with the remaining tokens computed before the total is increased
updateStale(s, newTokens) ==
    [totalTokens |-> s.totalTokens + newTokens,
     messageCount |-> s.messageCount + 1,
     remainingTokens |-> MaxTokens - s.totalTokens]

\* update with the remaining tokens clamped at zero
updateClamped(s, newTokens) ==
    LET total == s.totalTokens + newTokens
    IN  [totalTokens |-> total,
         messageCount |-> s.messageCount + 1,
         remainingTokens |-> IF total > MaxTokens THEN 0 ELSE MaxTokens - total]

\* update with the total assigned instead of increased
updateAssign(s, newTokens) ==
    [totalTokens |-> newTokens,
     messageCount |-> s.messageCount + 1,
     remainingTokens |-> MaxTokens - newTokens]

update(s, newTokens) ==
    LET total == s.totalTokens + newTokens
    IN  [totalTokens |-> total,
         messageCount |-> s.messageCount + 1,
         remainingTokens |-> MaxTokens - total]

\* "%.1f" of float64(totalTokens)/float64(MaxTokens)*100, in tenths of a
\* percent.  MaxTokens is a power of two, so the quotient is exact and the
\* formatting rounds the exact value to the nearest tenth, ties to even.
Usage(total) ==
    LET q == (total * 1000) \div MaxTokens
        r == (total * 1000) % MaxTokens
    IN  IF 2 * r > MaxTokens THEN q + 1
        ELSE IF 2 * r = MaxTokens THEN q + (q % 2)
        ELSE q

Out(kind, text, nums) == [kind |-> kind, text |-> text, nums |-> nums]

\* the summary display prints
display(s) ==
    Out("stats", <<>>, <<s.messageCount, s.totalTokens, s.remainingTokens, Usage(s.totalTokens)>>)

(* ------------------------------ transcript ---------------------------- *)

SystemMessage(text) == [role |-> "system", content |-> text]
UserMessage(text) == [role |-> "user", content |-> text]
AssistantMessage(text) == [role |-> "assistant", content |-> text]

(* -------------------------------- state ------------------------------- *)

VARIABLES
    pc,                \* the state of the conversation loop
    input,             \* the line read by the current iteration
    inputTokens,       \* result of countTokens(input)
    err,               \* error of countTokens(input)
    messages,          \* the transcript
    stats,             \* the session tracker
    assistantResponse, \* the response buffer of the current iteration
    responseTokens,    \* result of countTokens(assistantResponse.String())
    responseErr,       \* its error, which main discards
    stream,            \* the completion stream of the current iteration
    requests,          \* the requests the current iteration has submitted
    stdout,            \* what the current iteration has written to stdout
    stderr,            \* what the current iteration has written to stderr
    linesRead,         \* number of lines read that were not the quit line
    start,             \* tracker specification: the tracker before the calls
    tracker,           \* tracker specification: the tracker under test
    calls              \* tracker specification: the arguments of the calls

loopVars == <<pc, input, inputTokens, err, messages, stats, assistantResponse,
              responseTokens, responseErr, stream, requests, stdout, stderr, linesRead>>
trackerVars == <<start, tracker, calls>>
vars == <<loopVars, trackerVars>>

NoStream == [status |-> "none", events |-> <<>>]

LoopInit ==
    /\ pc = "AwaitingInput"
    /\ input = <<>>
    /\ inputTokens = 0
    /\ err = FALSE
    /\ messages = <<SystemMessage(SystemPrompt)>>
    /\ stats = NewStats
    /\ assistantResponse = <<>>
    /\ responseTokens = 0
    /\ responseErr = FALSE
    /\ stream = NoStream
    /\ requests = <<>>
    /\ stdout = <<>>
    /\ stderr = <<>>
    /\ linesRead = 0

(* -------------------------- conversation loop ------------------------- *)

\* the quit test also taking the empty line for the quit line
IsQuitOrEmpty(line) == line = Quit \/ line = <<>>

IsQuit(line) == line = Quit

\* one line is read; the quit line ends the loop
ReadLine(line) ==
    /\ pc = "AwaitingInput"
    /\ IsQuit(line) \/ linesRead < MaxLines
    /\ input' = line
    /\ inputTokens' = 0
    /\ err' = FALSE
    /\ assistantResponse' = <<>>
    /\ responseTokens' = 0
    /\ responseErr' = FALSE
    /\ stream' = NoStream
    /\ requests' = <<>>
    /\ stderr' = <<>>
    /\ IF IsQuit(line)
       THEN /\ stdout' = <<Out("prompt", <<>>, <<>>), Out("final", <<>>, <<>>), display(stats)>>
            /\ pc' = "Exiting"
            /\ linesRead' = linesRead
       ELSE /\ stdout' = <<Out("prompt", <<>>, <<>>)>>
            /\ pc' = "CheckingBudget"
            /\ linesRead' = linesRead + 1
    /\ UNCHANGED <<messages, stats, trackerVars>>

\* the budget check off by one: an input that exactly fills the window is refused
OverBudgetStrict(tokens, total) == tokens + total >= MaxTokens

\* the budget check on the input alone, the tokens already used left out
OverBudgetInputOnly(tokens, total) == tokens > MaxTokens

\* inputTokens+stats.totalTokens > MaxTokens
OverBudget(tokens, total) == tokens + total > MaxTokens

\* the counting failure ignored: the input goes on as an input of no token
TokenizeFailIgnored ==
    /\ pc = "CheckingBudget"
    /\ LET c == countTokens(input, FALSE)
       IN  /\ c.err
           /\ inputTokens' = c.n
           /\ err' = c.err
           /\ stats' = update(stats, c.n)
    /\ messages' = Append(messages, UserMessage(input))
    /\ stdout' = Append(stdout, Out("echo", input, <<>>))
    /\ requests' = Append(requests, messages')
    /\ stream' = [status |-> "open", events |-> <<>>]
    /\ pc' = "Streaming"
    /\ UNCHANGED <<input, assistantResponse, responseTokens, responseErr, stderr,
                   linesRead, trackerVars>>

\* counting the tokens of the input fails: the input is skipped
TokenizeFail ==
    /\ pc = "CheckingBudget"
    /\ LET c == countTokens(input, FALSE)
       IN  /\ c.err
           /\ inputTokens' = c.n
           /\ err' = c.err
    /\ stderr' = Append(stderr, Out("Error counting tokens", <<>>, <<>>))
    /\ pc' = "AwaitingInput"
    /\ UNCHANGED <<input, messages, stats, assistantResponse, responseTokens, responseErr,
                   stream, requests, stdout, linesRead, trackerVars>>

\* the rejection starting the tracker afresh
RejectInputReset ==
    /\ pc = "CheckingBudget"
    /\ LET c == countTokens(input, TRUE)
       IN  /\ ~c.err
           /\ OverBudget(c.n, stats.totalTokens)
           /\ inputTokens' = c.n
           /\ err' = c.err
           /\ stdout' = Append(stdout, Out("warning", <<>>, <<stats.totalTokens, c.n, MaxTokens>>))
    /\ stats' = NewStats
    /\ pc' = "AwaitingInput"
    /\ UNCHANGED <<input, messages, assistantResponse, responseTokens, responseErr,
                   stream, requests, stderr, linesRead, trackerVars>>

\* the input does not fit the budget: it is skipped with a warning
RejectInput ==
    /\ pc = "CheckingBudget"
    /\ LET c == countTokens(input, TRUE)
       IN  /\ ~c.err
           /\ OverBudget(c.n, stats.totalTokens)
           /\ inputTokens' = c.n
           /\ err' = c.err
           /\ stdout' = Append(stdout, Out("warning", <<>>, <<stats.totalTokens, c.n, MaxTokens>>))
    /\ pc' = "AwaitingInput"
    /\ UNCHANGED <<input, messages, stats, assistantResponse, responseTokens, responseErr,
                   stream, requests, stderr, linesRead, trackerVars>>

\* the request submitted before the user message joins the transcript
AcceptInputRequestFirst ==
    /\ pc = "CheckingBudget"
    /\ LET c == countTokens(input, TRUE)
       IN  /\ ~c.err
           /\ ~OverBudget(c.n, stats.totalTokens)
           /\ inputTokens' = c.n
           /\ err' = c.err
           /\ stats' = update(stats, c.n)
    /\ requests' = Append(requests, messages)
    /\ messages' = Append(messages, UserMessage(input))
    /\ stdout' = Append(stdout, Out("echo", input, <<>>))
    /\ stream' = [status |-> "open", events |-> <<>>]
    /\ pc' = "Streaming"
    /\ UNCHANGED <<input, assistantResponse, responseTokens, responseErr, stderr,
                   linesRead, trackerVars>>

\* the input fits: it joins the transcript and the request is submitted
AcceptInput ==
    /\ pc = "CheckingBudget"
    /\ LET c == countTokens(input, TRUE)
       IN  /\ ~c.err
           /\ ~OverBudget(c.n, stats.totalTokens)
           /\ inputTokens' = c.n
           /\ err' = c.err
           /\ stats' = update(stats, c.n)
    /\ messages' = Append(messages, UserMessage(input))
    /\ stdout' = Append(stdout, Out("echo", input, <<>>))
    /\ requests' = Append(requests, messages')
    /\ stream' = [status |-> "open", events |-> <<>>]
    /\ pc' = "Streaming"
    /\ UNCHANGED <<input, assistantResponse, responseTokens, responseErr, stderr,
                   linesRead, trackerVars>>

\* the event's content put in front of the buffer instead of at its end
StreamNextPrepend(evt) ==
    /\ pc = "Streaming"
    /\ stream.status = "open"
    /\ Len(stream.events) < MaxEvents
    /\ stream' = [stream EXCEPT !.events = Append(@, evt)]
    /\ IF Len(evt) > 0
       THEN /\ stdout' = Append(stdout, Out("content", evt[1], <<>>))
            /\ assistantResponse' = WriteString(evt[1], assistantResponse)
       ELSE UNCHANGED <<stdout, assistantResponse>>
    /\ UNCHANGED <<pc, input, inputTokens, err, messages, stats, responseTokens, responseErr,
                   requests, stderr, linesRead, trackerVars>>

\* stream.Next() delivers an event
StreamNext(evt) ==
    /\ pc = "Streaming"
    /\ stream.status = "open"
    /\ Len(stream.events) < MaxEvents
    /\ stream' = [stream EXCEPT !.events = Append(@, evt)]
    /\ IF Len(evt) > 0
       THEN /\ stdout' = Append(stdout, Out("content", evt[1], <<>>))
            /\ assistantResponse' = WriteString(assistantResponse, evt[1])
       ELSE UNCHANGED <<stdout, assistantResponse>>
    /\ UNCHANGED <<pc, input, inputTokens, err, messages, stats, responseTokens, responseErr,
                   requests, stderr, linesRead, trackerVars>>

\* stream.Next() returns false: the stream has ended, normally or with an error
StreamEnd(failed) ==
    /\ pc = "Streaming"
    /\ stream.status = "open"
    /\ stream' = [stream EXCEPT !.status = IF failed THEN "error" ELSE "eof"]
    /\ stdout' = Append(stdout, Out("newline", <<>>, <<>>))
    /\ pc' = "UpdatingStats"
    /\ UNCHANGED <<input, inputTokens, err, messages, stats, assistantResponse, responseTokens,
                   responseErr, requests, stderr, linesRead, trackerVars>>

\* the error of the stream checked first: a failed stream leaves no reply
UpdateStatsRollback(avail) ==
    /\ pc = "UpdatingStats"
    /\ IF stream.status = "error"
       THEN /\ stderr' = Append(stderr, Out("Error from OpenAI:", <<>>, <<>>))
            /\ UNCHANGED <<messages, stats, responseTokens, responseErr, stdout>>
       ELSE /\ messages' = Append(messages, AssistantMessage(assistantResponse))
            /\ LET c == countTokens(assistantResponse, avail)
               IN  /\ responseTokens' = c.n
                   /\ responseErr' = c.err
                   /\ stats' = update(stats, c.n)
            /\ stdout' = Append(stdout, display(stats'))
            /\ stderr' = stderr
    /\ pc' = "AwaitingInput"
    /\ UNCHANGED <<input, inputTokens, err, assistantResponse, stream, requests,
                   linesRead, trackerVars>>

\* a failed stream retried: the request is submitted again
UpdateStatsRetry(avail) ==
    /\ pc = "UpdatingStats"
    /\ IF stream.status = "error"
       THEN /\ stderr' = <<Out("Error from OpenAI:", <<>>, <<>>)>>
            /\ requests' = <<messages>>
            /\ stream' = [status |-> "open", events |-> <<>>]
            /\ stdout' = <<Out("prompt", <<>>, <<>>), Out("echo", input, <<>>)>>
            /\ assistantResponse' = <<>>
            /\ pc' = "Streaming"
            /\ UNCHANGED <<messages, stats, responseTokens, responseErr>>
       ELSE /\ messages' = Append(messages, AssistantMessage(assistantResponse))
            /\ LET c == countTokens(assistantResponse, avail)
               IN  /\ responseTokens' = c.n
                   /\ responseErr' = c.err
                   /\ stats' = update(stats, c.n)
            /\ stdout' = Append(stdout, display(stats'))
            /\ pc' = "AwaitingInput"
            /\ UNCHANGED <<stderr, stream, requests, assistantResponse>>
    /\ UNCHANGED <<input, inputTokens, err, linesRead, trackerVars>>

\* an empty reply left out of the transcript and of the stats
UpdateStatsSkipEmpty(avail) ==
    /\ pc = "UpdatingStats"
    /\ IF assistantResponse = <<>>
       THEN UNCHANGED <<messages, stats, responseTokens, responseErr, stdout>>
       ELSE /\ messages' = Append(messages, AssistantMessage(assistantResponse))
            /\ LET c == countTokens(assistantResponse, avail)
               IN  /\ responseTokens' = c.n
                   /\ responseErr' = c.err
                   /\ stats' = update(stats, c.n)
            /\ stdout' = Append(stdout, display(stats'))
    /\ stderr' = IF stream.status = "error"
                 THEN Append(stderr, Out("Error from OpenAI:", <<>>, <<>>))
                 ELSE stderr
    /\ pc' = "AwaitingInput"
    /\ UNCHANGED <<input, inputTokens, err, assistantResponse, stream, requests,
                   linesRead, trackerVars>>

\* the failure to count the reply reported like the one to count the input
UpdateStatsLogged(avail) ==
    /\ pc = "UpdatingStats"
    /\ messages' = Append(messages, AssistantMessage(assistantResponse))
    /\ LET c == countTokens(assistantResponse, avail)
       IN  /\ responseTokens' = c.n
           /\ responseErr' = c.err
           /\ stats' = update(stats, c.n)
           /\ stderr' = (IF c.err
                         THEN Append(stderr, Out("Error counting tokens", <<>>, <<>>))
                         ELSE stderr)
                        \o (IF stream.status = "error"
                            THEN <<Out("Error from OpenAI:", <<>>, <<>>)>>
                            ELSE <<>>)
    /\ stdout' = Append(stdout, display(stats'))
    /\ pc' = "AwaitingInput"
    /\ UNCHANGED <<input, inputTokens, err, assistantResponse, stream, requests,
                   linesRead, trackerVars>>

\* the reply written over the last message of the transcript
UpdateStatsOverwrite(avail) ==
    /\ pc = "UpdatingStats"
    /\ messages' = [messages EXCEPT ![Len(messages)] = AssistantMessage(assistantResponse)]
    /\ LET c == countTokens(assistantResponse, avail)
       IN  /\ responseTokens' = c.n
           /\ responseErr' = c.err
           /\ stats' = update(stats, c.n)
    /\ stdout' = Append(stdout, display(stats'))
    /\ stderr' = IF stream.status = "error"
                 THEN Append(stderr, Out("Error from OpenAI:", <<>>, <<>>))
                 ELSE stderr
    /\ pc' = "AwaitingInput"
    /\ UNCHANGED <<input, inputTokens, err, assistantResponse, stream, requests,
                   linesRead, trackerVars>>

\* the reply joins the transcript, the tracker is updated and displayed, and
\* the error of the stream, if any, is reported
UpdateStats(avail) ==
    /\ pc = "UpdatingStats"
    /\ messages' = Append(messages, AssistantMessage(assistantResponse))
    /\ LET c == countTokens(assistantResponse, avail)
       IN  /\ responseTokens' = c.n
           /\ responseErr' = c.err
           /\ stats' = update(stats, c.n)
    /\ stdout' = Append(stdout, display(stats'))
    /\ stderr' = IF stream.status = "error"
                 THEN Append(stderr, Out("Error from OpenAI:", <<>>, <<>>))
                 ELSE stderr
    /\ pc' = "AwaitingInput"
    /\ UNCHANGED <<input, inputTokens, err, assistantResponse, stream, requests,
                   linesRead, trackerVars>>

(* ------------------------ tracker specification ----------------------- *)

\* the trackers a session can hold before a call: the fresh one, and used
\* ones (at least one message counted)
Trackers ==
    {NewStats} \cup
    {[totalTokens |-> t, messageCount |-> m, remainingTokens |-> MaxTokens - t] :
        t \in {0, 1, MaxTokens - 1, MaxTokens}, m \in 1..2}

Call(newTokens) ==
    /\ Len(calls) < MaxCalls
    /\ tracker' = update(tracker, newTokens)
    /\ calls' = Append(calls, newTokens)
    /\ UNCHANGED <<start, loopVars>>

(* --------------------------- specifications --------------------------- *)

Init ==
    /\ LoopInit
    /\ start = NewStats
    /\ tracker = NewStats
    /\ calls = <<>>

Next ==
    \/ \E line \in Lines : ReadLine(line)
    \/ TokenizeFail
    \/ RejectInput
    \/ AcceptInput
    \/ \E evt \in Events : StreamNext(evt)
    \/ \E failed \in BOOLEAN : StreamEnd(failed)
    \/ \E avail \in BOOLEAN : UpdateStats(avail)

Spec == Init /\ [][Next]_vars

\* the steps main takes on its own once a line is read
CheckStep == TokenizeFail \/ RejectInput \/ AcceptInput
UpdateStep == \E avail \in BOOLEAN : UpdateStats(avail)

\* the steps of the completion stream
StreamStep == (\E evt \in Events : StreamNext(evt)) \/ (\E failed \in BOOLEAN : StreamEnd(failed))

\* the lines of the progress specification: the quit line, a line that is
\* accepted and a line that is rejected
LiveLines == {Quit, <<>>, Rep("a", MaxTokens + 1)}

LiveNext ==
    \/ \E line \in LiveLines : ReadLine(line)
    \/ CheckStep
    \/ StreamStep
    \/ UpdateStep

\* main runs on whenever it is not waiting for a line, and the stream, which
\* is finite, delivers its next event or ends; nothing is assumed of the user
Fairness == WF_vars(CheckStep) /\ WF_vars(StreamStep) /\ WF_vars(UpdateStep)

LiveSpec == Init /\ [][LiveNext]_vars /\ Fairness

TrackerInit ==
    /\ LoopInit
    /\ start \in Trackers
    /\ tracker = start
    /\ calls = <<>>

TrackerNext == \E newTokens \in Counts : Call(newTokens)

TrackerSpec == TrackerInit /\ [][TrackerNext]_vars

(* ------------------------------- claims ------------------------------- *)

\* C1: the context-window limit holds over input and output tokens together:
\* in every reachable state totalTokens <= MaxTokens and remainingTokens >= 0.
C1_WithinLimit ==
    /\ stats.totalTokens <= MaxTokens
    /\ stats.remainingTokens >= 0

\* C2: an input counted at k tokens with totalTokens = T is accepted iff
\* T + k <= MaxTokens; a rejected input leaves the stats and the transcript
\* unchanged, sends no request, and the loop returns to AwaitingInput.
C2_BudgetCheck ==
    [][(pc = "CheckingBudget" /\ ~err') =>
          LET T == stats.totalTokens
              k == Encode(input)
          IN  /\ inputTokens' = k
              /\ (T + k <= MaxTokens) <=> (pc' = "Streaming")
              /\ (T + k <= MaxTokens) =>
                     /\ messages' = Append(messages, UserMessage(input))
                     /\ Len(requests') = 1
              /\ ~(T + k <= MaxTokens) =>
                     /\ pc' = "AwaitingInput"
                     /\ UNCHANGED <<messages, stats, requests>>
                     /\ requests = <<>>]_vars

\* an input has been rejected in a session that has already used tokens
C2_Witness ==
    /\ pc = "AwaitingInput"
    /\ ~err
    /\ stats.totalTokens > 0
    /\ inputTokens + stats.totalTokens > MaxTokens
    /\ stdout[Len(stdout)].kind = "warning"
    /\ requests = <<>>

\* C3: in every reachable state of the session remainingTokens equals
\* MaxTokens - totalTokens.
C3_Remaining == stats.remainingTokens = MaxTokens - stats.totalTokens

\* both updates of a turn have been applied
C3_Witness ==
    /\ stats.messageCount = 2
    /\ stats.totalTokens > 0
    /\ stats.remainingTokens < MaxTokens


\* C4: when the stream of an accepted turn ends with an error, the error is
\* reported and the loop returns to AwaitingInput without rollback: the
\* assistant message built from the fragments received stays appended and its
\* tokens stay counted, exactly as after a normal end of stream.
C4_NoRollback ==
    [][pc = "UpdatingStats" =>
          /\ pc' = "AwaitingInput"
          /\ messages' = Append(messages, AssistantMessage(assistantResponse))
          /\ responseTokens' = IF responseErr' THEN 0 ELSE Encode(assistantResponse)
          /\ stats'.totalTokens = stats.totalTokens + responseTokens'
          /\ stats'.messageCount = stats.messageCount + 1
          /\ stats'.remainingTokens = stats.remainingTokens - responseTokens'
          /\ stdout' = Append(stdout, display(stats'))
          /\ stderr' = IF stream.status = "error"
                       THEN Append(stderr, Out("Error from OpenAI:", <<>>, <<>>))
                       ELSE stderr]_vars

\* a turn whose stream failed after delivering content has ended
C4_Witness ==
    /\ pc = "AwaitingInput"
    /\ stream.status = "error"
    /\ assistantResponse # <<>>
    /\ messages[Len(messages)] = AssistantMessage(assistantResponse)
    /\ responseTokens > 0
    /\ stats.totalTokens = inputTokens + responseTokens
    /\ stderr = <<Out("Error from OpenAI:", <<>>, <<>>)>>

\* C5: the loop reaches Exiting if and only if the line read is "q"; every
\* other outcome of a turn returns to AwaitingInput; the quit step only
\* displays the stats and leaves the stats and the transcript unchanged.
C5_ExitOnlyOnQuit ==
    [][/\ pc = "AwaitingInput" =>
             /\ (pc' = "Exiting") <=> (input' = Quit)
             /\ input' # Quit => pc' = "CheckingBudget"
             /\ input' = Quit =>
                    stdout' = <<Out("prompt", <<>>, <<>>), Out("final", <<>>, <<>>),
                                display(stats)>>
             /\ UNCHANGED <<messages, stats>>
             /\ requests' = <<>>
             /\ stderr' = <<>>
       /\ pc # "AwaitingInput" => pc' # "Exiting"
       /\ pc = "CheckingBudget" => pc' \in {"AwaitingInput", "Streaming"}
       /\ pc = "Streaming" => pc' \in {"Streaming", "UpdatingStats"}
       /\ pc = "UpdatingStats" => pc' = "AwaitingInput"
       /\ pc = "Exiting" => UNCHANGED vars]_vars

\* the session has ended after a turn that went over the context window
C5_Witness ==
    /\ pc = "Exiting"
    /\ input = Quit
    /\ stats.totalTokens > MaxTokens
    /\ Len(messages) = 3
    /\ stdout[Len(stdout)] = display(stats)

\* C6: when counting the tokens of the input fails, the failure is logged
\* and the input is skipped: the loop returns to AwaitingInput with the
\* transcript and the stats unchanged and no request sent.
C6_TokenizeFailSkips ==
    [][(pc = "CheckingBudget" /\ err') =>
          /\ pc' = "AwaitingInput"
          /\ UNCHANGED <<messages, stats, requests, stdout>>
          /\ requests = <<>>
          /\ stream' = NoStream
          /\ stderr' = <<Out("Error counting tokens", <<>>, <<>>)>>]_vars

\* counting has failed for an input read after a completed turn
C6_Witness ==
    /\ pc = "AwaitingInput"
    /\ err
    /\ input # <<>>
    /\ Len(messages) = 3
    /\ stats.messageCount = 2
    /\ requests = <<>>
    /\ stderr = <<Out("Error counting tokens", <<>>, <<>>)>>

RECURSIVE Fragments(_)
\* the contents of the events that have a choice, joined in arrival order
Fragments(events) ==
    IF events = <<>> THEN <<>>
    ELSE IF Len(Head(events)) > 0
         THEN WriteString(Head(events)[1], Fragments(Tail(events)))
         ELSE Fragments(Tail(events))

\* C7: from a fresh session, one accepted turn whose input counts k tokens
\* and whose reply counts r tokens ends with messageCount = 2, totalTokens =
\* k + r, remainingTokens = MaxTokens - (k + r) and the transcript [system,
\* user(input), assistant(the fragments joined in arrival order)].
C7_OneTurn ==
    (/\ pc = "AwaitingInput"
     /\ stream.status \in {"eof", "error"}
     /\ Len(messages) = 3
     /\ ~responseErr) =>
        LET reply == Fragments(stream.events)
            k == Encode(input)
            r == Encode(reply)
        IN  /\ stats = [totalTokens |-> k + r, messageCount |-> 2,
                        remainingTokens |-> MaxTokens - (k + r)]
            /\ messages = <<SystemMessage(SystemPrompt), UserMessage(input),
                            AssistantMessage(reply)>>

\* the turn of the example: an input of 10 tokens, then two fragments that
\* count 2 tokens together
C7_Witness ==
    /\ pc = "AwaitingInput"
    /\ stream.status = "eof"
    /\ Len(messages) = 3
    /\ ~responseErr
    /\ Encode(input) = 10
    /\ Len(stream.events) = 2
    /\ Encode(assistantResponse) = 2
    /\ stats = [totalTokens |-> 12, messageCount |-> 2, remainingTokens |-> 4084]

\* C8: one update(t) on a fresh tracker yields totalTokens = t,
\* messageCount = 1 and remainingTokens = MaxTokens - t, for every t >= 0.
C8_FreshUpdate ==
    (start = NewStats /\ Len(calls) = 1) =>
        tracker = [totalTokens |-> calls[1], messageCount |-> 1,
                   remainingTokens |-> MaxTokens - calls[1]]

\* a fresh tracker has been updated once with more tokens than the window
C8_Witness ==
    /\ start = NewStats
    /\ calls = <<MaxTokens + 1>>
    /\ tracker.remainingTokens = -1

\* C9: from any tracker, update(a) then update(b) gives the totalTokens and
\* remainingTokens of one update(a+b), and a messageCount greater by one.
C9_Additive ==
    Len(calls) = 2 =>
        LET once == update(start, calls[1] + calls[2])
        IN  /\ tracker.totalTokens = once.totalTokens
            /\ tracker.remainingTokens = once.remainingTokens
            /\ tracker.messageCount = once.messageCount + 1

\* a used tracker has been updated twice with token counts that differ
C9_Witness ==
    /\ Len(calls) = 2
    /\ start.totalTokens > 0
    /\ start.messageCount > 0
    /\ calls[1] > calls[2]
    /\ calls[2] > 0
    /\ tracker.messageCount = start.messageCount + 2

\* C10 as stated: once totalTokens >= MaxTokens, every input other than "q"
\* is rejected, so the transcript and the stats never change again.
C10_Original ==
    [][(pc = "CheckingBudget" /\ stats.totalTokens >= MaxTokens) =>
          /\ pc' = "AwaitingInput"
          /\ UNCHANGED <<messages, stats>>]_vars

\* C10 as amended: once totalTokens >= MaxTokens it stays so, and every
\* input other than "q" that counts at least one token is skipped, leaving
\* the transcript and the stats unchanged and sending no request; once
\* totalTokens > MaxTokens every input other than "q" is skipped.  (An input
\* of no token read at totalTokens = MaxTokens is accepted.)
C10_Wedged ==
    [][/\ stats.totalTokens >= MaxTokens => stats'.totalTokens >= MaxTokens
       /\ stats.totalTokens > MaxTokens => stats'.totalTokens > MaxTokens
       /\ (/\ pc = "CheckingBudget"
           /\ \/ stats.totalTokens > MaxTokens
              \/ stats.totalTokens = MaxTokens /\ Encode(input) >= 1) =>
             /\ pc' = "AwaitingInput"
             /\ UNCHANGED <<messages, stats, requests>>
             /\ requests = <<>>
             /\ ~err' => stdout'[Len(stdout')].kind = "warning"]_vars

\* an input of ten tokens has been rejected at totalTokens = MaxTokens
C10_Witness ==
    /\ pc = "AwaitingInput"
    /\ stats.totalTokens = MaxTokens
    /\ ~err
    /\ inputTokens = 10
    /\ stdout[Len(stdout)] = Out("warning", <<>>, <<MaxTokens, 10, MaxTokens>>)
    /\ Len(messages) = 3

\* C11: every accepted turn appends the user message, updates the stats
\* with the input count, submits one request carrying the full transcript
\* that ends with that user message, consumes the stream to its end, appends
\* one assistant message, updates the stats with the reply count and
\* displays the stats, in this order and once each; no second request is
\* made and no line is read while the stream is open.
C11_TurnOrder ==
    [][/\ (pc = "CheckingBudget" /\ pc' = "Streaming") =>
             /\ messages' = Append(messages, UserMessage(input))
             /\ stats' = [totalTokens |-> stats.totalTokens + Encode(input),
                          messageCount |-> stats.messageCount + 1,
                          remainingTokens |-> stats.remainingTokens - Encode(input)]
             /\ requests = <<>>
             /\ requests' = <<messages'>>
             /\ requests'[1][Len(requests'[1])] = UserMessage(input)
             /\ stream' = [status |-> "open", events |-> <<>>]
             /\ stdout' = <<Out("prompt", <<>>, <<>>), Out("echo", input, <<>>)>>
       /\ pc = "Streaming" =>
             /\ stream.status = "open"
             /\ UNCHANGED <<input, linesRead, messages, stats, requests>>
             /\ \/ /\ pc' = "Streaming"
                   /\ stream'.status = "open"
                   /\ Len(stream'.events) = Len(stream.events) + 1
                \/ /\ pc' = "UpdatingStats"
                   /\ stream'.status \in {"eof", "error"}
                   /\ stream'.events = stream.events
                   /\ assistantResponse' = assistantResponse
       /\ pc = "UpdatingStats" =>
             /\ stream.status \in {"eof", "error"}
             /\ UNCHANGED <<input, linesRead, requests, stream, assistantResponse>>
             /\ messages' = Append(messages, AssistantMessage(assistantResponse))
             /\ stats' = [totalTokens |-> stats.totalTokens + responseTokens',
                          messageCount |-> stats.messageCount + 1,
                          remainingTokens |-> stats.remainingTokens - responseTokens']
             /\ stdout' = Append(stdout, display(stats'))
             /\ Len(requests') = 1
             /\ pc' = "AwaitingInput"
       /\ stream.status = "open" => (input' = input /\ linesRead' = linesRead)
       /\ Len(requests') <= 1]_vars

\* a turn whose stream failed has ended: one request, sent with the user
\* message last, and the outputs of the turn in their order
C11_Witness ==
    /\ pc = "AwaitingInput"
    /\ stream.status = "error"
    /\ Len(stream.events) = 2
    /\ Len(messages) = 5
    /\ Len(requests) = 1
    /\ requests[1] = SubSeq(messages, 1, 4)
    /\ messages[4] = UserMessage(input)
    /\ messages[5] = AssistantMessage(assistantResponse)
    /\ stdout[2] = Out("echo", input, <<>>)
    /\ stdout[Len(stdout) - 1] = Out("newline", <<>>, <<>>)
    /\ stdout[Len(stdout)] = display(stats)

\* C12: the transcript is append-only: its first message is always the
\* system message, and every step leaves it unchanged or extends it by
\* exactly one message at the end.
C12_AppendOnly ==
    [][/\ messages[1] = SystemMessage(SystemPrompt)
       /\ messages'[1] = SystemMessage(SystemPrompt)
       /\ \/ messages' = messages
          \/ /\ Len(messages') = Len(messages) + 1
             /\ SubSeq(messages', 1, Len(messages)) = messages]_vars

\* the transcript of two turns
C12_Witness ==
    /\ Len(messages) = 5
    /\ messages[1] = SystemMessage(SystemPrompt)
    /\ messages[2].role = "user"
    /\ messages[3].role = "assistant"
    /\ messages[3].content # <<>>
    /\ messages[5] = AssistantMessage(assistantResponse)

\* C13: the stats are never reset: totalTokens and messageCount never
\* decrease, remainingTokens never increases, and the stats change only in a
\* step that calls update (the acceptance of an input, the end of a turn).
C13_NeverReset ==
    [][/\ stats'.totalTokens >= stats.totalTokens
       /\ stats'.messageCount >= stats.messageCount
       /\ stats'.remainingTokens <= stats.remainingTokens
       /\ stats' # stats =>
             /\ \/ pc = "CheckingBudget" /\ pc' = "Streaming"
                \/ pc = "UpdatingStats"
             /\ stats'.messageCount = stats.messageCount + 1]_vars

\* the stats after four updates, the session being over the window
C13_Witness ==
    /\ pc = "AwaitingInput"
    /\ stats.messageCount = 4
    /\ stats.totalTokens >= MaxTokens
    /\ stats.remainingTokens <= 0

\* C14: every turn makes progress: the stream being finite, every input
\* read brings the loop back to AwaitingInput, whether skipped or accepted,
\* and a session in which "q" is eventually entered (the quit line is
\* entered if the prompt keeps coming back) eventually reaches Exiting.
C14_Progress ==
    /\ (pc \in {"CheckingBudget", "Streaming", "UpdatingStats"}) ~> (pc = "AwaitingInput")
    /\ SF_vars(ReadLine(Quit)) => <>(pc = "Exiting")

\* an accepted turn whose stream delivered all its events and failed has
\* come back to the prompt
C14_Witness ==
    /\ pc = "AwaitingInput"
    /\ stream.status = "error"
    /\ Len(stream.events) = MaxEvents
    /\ linesRead = MaxLines

\* C15: whenever the loop is in AwaitingInput the transcript holds
\* 1 + messageCount messages, messageCount is even, and after the system
\* message the roles alternate user, assistant, also after a stream that
\* failed or delivered no content.
C15_Alternation ==
    pc = "AwaitingInput" =>
        /\ Len(messages) = 1 + stats.messageCount
        /\ stats.messageCount % 2 = 0
        /\ messages[1].role = "system"
        /\ \A i \in 2..Len(messages) :
              messages[i].role = IF i % 2 = 0 THEN "user" ELSE "assistant"

\* the second turn has ended on a failed stream that delivered no content
C15_Witness ==
    /\ pc = "AwaitingInput"
    /\ stream.status = "error"
    /\ assistantResponse = <<>>
    /\ Len(messages) = 5
    /\ messages[5] = AssistantMessage(<<>>)
    /\ stats.messageCount = 4

RECURSIVE TranscriptTokens(_)
\* the sum of the token counts of the messages
TranscriptTokens(msgs) ==
    IF msgs = <<>> THEN 0 ELSE Encode(Head(msgs).content) + TranscriptTokens(Tail(msgs))

\* C16: whenever the loop is in AwaitingInput, totalTokens is the sum of the
\* token counts of the user and assistant messages of the transcript (the
\* system message is not counted).
C16_TotalIsSum ==
    pc = "AwaitingInput" => stats.totalTokens = TranscriptTokens(Tail(messages))

\* C17: when counting the tokens of the reply fails, the failure is
\* swallowed and counts as 0: the reply stays appended, messageCount grows
\* by one, totalTokens and remainingTokens do not change, no tokenization
\* diagnostic is written, and the loop continues to AwaitingInput.
C17_ReplyCountSwallowed ==
    [][(pc = "UpdatingStats" /\ responseErr') =>
          /\ responseTokens' = 0
          /\ messages' = Append(messages, AssistantMessage(assistantResponse))
          /\ stats'.messageCount = stats.messageCount + 1
          /\ stats'.totalTokens = stats.totalTokens
          /\ stats'.remainingTokens = stats.remainingTokens
          /\ \A i \in 1..Len(stderr') : stderr'[i].kind # "Error counting tokens"
          /\ stderr' = IF stream.status = "error"
                       THEN <<Out("Error from OpenAI:", <<>>, <<>>)>>
                       ELSE <<>>
          /\ stdout' = Append(stdout, display(stats'))
          /\ pc' = "AwaitingInput"]_vars

\* a turn has ended normally with a reply of tokens that were not counted
C17_Witness ==
    /\ pc = "AwaitingInput"
    /\ responseErr
    /\ stream.status = "eof"
    /\ Encode(assistantResponse) > 0
    /\ messages[Len(messages)] = AssistantMessage(assistantResponse)
    /\ stats.totalTokens = inputTokens
    /\ stats.messageCount = 2
    /\ stderr = <<>>

====
